---- MODULE Spec2Model ----
(***************************************************************************)
(* A model of package describe (kstenerud/go-describe), as of the version  *)
(* of describe.go that has the recovery boundary and the unsafe switch:    *)
(* the duplicates finder (findDuplicatesInternal, findDuplicates), the     *)
(* description context (describeReflect and its helpers), the public       *)
(* entry points Describe and SetCustomDescriber, and the process-wide      *)
(* registry customDescribers.                                              *)
(*                                                                         *)
(* A Go value graph is a finite heap of nodes.  Every node has a kind, a   *)
(* sequence of child slots and a nil flag.  A slot holds 0 (a leaf: an int *)
(* with value 0) or the number of a node.  reflect.Value is modelled by    *)
(* what the code reads of it: the node, whether it is addressable          *)
(* (CanAddr) and, when it is, its address.  A uintptr is a pair            *)
(* <<allocation, offset>>, and <<0, 0>> is the nil pointer.                *)
(***************************************************************************)
EXTENDS Integers, Sequences, FiniteSets, TLC

\* The total number of child slots of the value graphs that are described.
MaxSlots == 3

\* The depth of nested calls at which the Go runtime gives up ("goroutine
\* stack exceeds 1000000000-byte limit"), scaled to the graphs above: no
\* terminating traversal of a graph within MaxSlots nests this deep.
MaxStack == 12

----------------------------------------------------------------------------
(* Value graphs *)

Kinds == {"ptr", "iface", "slice", "map", "struct", "array"}

\* Kinds whose values are stored in line in their parent (no indirection).
ByValueKinds == {"struct", "array", "iface"}

MkNode(kind, kids, nilv) == [kind |-> kind, kids |-> kids, nilv |-> nilv]

\* The sequences of len slots over the nodes known so far (1..cur) and the
\* leaf, where a slot may also name the next unused node cur + 1: nodes are
\* numbered in the order in which a breadth-first walk from the root first
\* meets them, so that every graph is built once.
RECURSIVE KidSeqs(_, _)
KidSeqs(len, cur) ==
    IF len = 0 THEN {[kids |-> <<>>, cur |-> cur]}
    ELSE UNION {{[kids |-> Append(p.kids, s),
                  cur  |-> IF s = p.cur + 1 THEN s ELSE p.cur] :
                 s \in 0..(p.cur + 1)} : p \in KidSeqs(len - 1, cur)}

\* The kinds and arities a node may have with b slots left.
Shapes(b) ==
    {[kind |-> k, len |-> 0, nilv |-> TRUE] : k \in {"ptr", "iface", "slice", "map"}}
    \cup {[kind |-> k, len |-> 1, nilv |-> FALSE] : k \in {x \in {"ptr", "iface"} : b >= 1}}
    \cup {[kind |-> "slice", len |-> n, nilv |-> FALSE] : n \in 0..b}
    \cup {[kind |-> "map", len |-> n, nilv |-> FALSE] : n \in {x \in 0..b : x % 2 = 0}}
    \cup {[kind |-> k, len |-> n, nilv |-> FALSE] : k \in {"struct", "array"}, n \in 1..b}

KindOf(h, s) == IF s = 0 THEN "int" ELSE h[s].kind

\* Kinds of values without children: the unsigned integers that
\* describeArray turns to hexadecimal, and uintptr, functions, channels and
\* the invalid Value that reflect.ValueOf(nil) is.
UnsignedKinds == {"uint8", "uint16", "uint32", "uint64", "uint"}
LeafKinds == UnsignedKinds \cup {"uintptr", "func", "chan", "invalid"}

\* A leaf: val is the value of an integer, most significant hexadecimal
\* digit first and as many digits as the type is wide (two per byte), or
\* the elements a channel's buffer holds.
MkLeaf(kind, nilv, val) == [kind |-> kind, kids |-> <<>>, nilv |-> nilv, val |-> val]

\* The widths, in bytes, of a pointer on the hosts Go builds for.
WordSizes == {4, 8}

\* The number of bytes of a value of an unsigned kind on a host.
ByteSize(kind, word) ==
    CASE kind = "uint8" -> 1
      [] kind = "uint16" -> 2
      [] kind = "uint32" -> 4
      [] kind = "uint64" -> 8
      [] OTHER -> word

\* Values of bytes bytes: 0, 1, the greatest, 10 in the highest digit and,
\* for 8 bytes, 2^32.
UintValues(bytes) ==
    LET n == 2 * bytes IN
    {[i \in 1..n |-> 0], [i \in 1..n |-> IF i = n THEN 1 ELSE 0],
     [i \in 1..n |-> 15], [i \in 1..n |-> IF i = 1 THEN 10 ELSE 0]}
    \cup {[i \in 1..n |-> IF i = 8 THEN 1 ELSE 0] : x \in {y \in {bytes} : y = 8}}

LeafShapes ==
    {MkLeaf(k, FALSE, val) : k \in {"uint8"}, val \in UintValues(1)}
    \cup {MkLeaf(k, FALSE, val) : k \in {"uint16"}, val \in UintValues(2)}
    \cup {MkLeaf(k, FALSE, val) : k \in {"uint32"}, val \in UintValues(4)}
    \cup {MkLeaf(k, FALSE, val) : k \in {"uint64"}, val \in UintValues(8)}
    \cup UNION {{MkLeaf(k, FALSE, val) : k \in {"uint", "uintptr"}, val \in UintValues(w)} :
                   w \in WordSizes}
    \cup {MkLeaf("func", nilv, <<>>) : nilv \in BOOLEAN}
    \cup {MkLeaf("chan", FALSE, val) : val \in {<<>>, <<0>>}}
    \cup {MkLeaf("chan", TRUE, <<>>), MkLeaf("invalid", FALSE, <<>>)}

\* The introspection handles: a reflect.Value (kids holds the one slot of
\* the value it was made from with reflect.ValueOf) and a reflect.Type (of
\* int).  ro tells whether the handle is reached through an unexported
\* struct field, so that CanInterface() is false for it.  The handles here
\* are never the zero Value or a nil Type.
HandleKinds == {"rvalue", "rtype"}
MkHandle(kind, kids, ro) == [kind |-> kind, kids |-> kids, nilv |-> FALSE, ro |-> ro]

\* The nodes a by-value node holds in line, by value.
ByValueKids(h, n) ==
    IF h[n].kind \in ByValueKinds
    THEN {h[n].kids[i] : i \in 1..Len(h[n].kids)} \ {0}
    ELSE {}

RECURSIVE InLineReach(_, _, _)
InLineReach(h, from, fuel) ==
    IF fuel = 0 THEN from
    ELSE LET next == from \cup UNION {{k \in ByValueKids(h, n) : h[k].kind \in ByValueKinds} : n \in from}
         IN  IF next = from THEN from ELSE InLineReach(h, next, fuel - 1)

\* A value cannot hold itself by value.
NoInLineCycle(h) ==
    \A n \in 1..Len(h) :
        n \notin InLineReach(h, {k \in ByValueKids(h, n) : h[k].kind \in ByValueKinds}, Len(h))

\* Go's comparable values: only these can be map keys.
RECURSIVE Comparable(_, _, _)
Comparable(h, s, fuel) ==
    IF s = 0 THEN TRUE
    ELSE CASE h[s].kind \in {"ptr", "rvalue", "rtype"} -> TRUE
           [] h[s].kind \in {"slice", "map", "func"} -> FALSE
           [] OTHER -> fuel > 0 /\ \A i \in 1..Len(h[s].kids) : Comparable(h, h[s].kids[i], fuel - 1)

\* The values a Go program can build and pass to Describe: the root is what
\* reflect.ValueOf yields (never of kind Interface), an interface never holds
\* an interface, by-value containment is well founded, keys are comparable.
\* Also: the invalid Value is the root alone; the elements of a slice or
\* an array of a leaf kind are all of that kind; the integers of the
\* platform's width are all as wide as the one host's word; a handle for
\* which CanInterface() is false is a field of a struct; a reflect.Value
\* holds what reflect.ValueOf yields.
WellFormed(h) ==
    /\ h[1].kind # "iface"
    /\ \A n \in 1..Len(h) :
          /\ (h[n].kind \in HandleKinds /\ h[n].ro) =>
                /\ n # 1
                /\ \A m \in 1..Len(h) : \A i \in 1..Len(h[m].kids) :
                      h[m].kids[i] = n => h[m].kind = "struct"
          /\ h[n].kind = "rvalue" => KindOf(h, h[n].kids[1]) # "iface"
          /\ h[n].kind = "iface" /\ ~h[n].nilv => KindOf(h, h[n].kids[1]) # "iface"
          /\ h[n].kind = "map" =>
                \A i \in 1..Len(h[n].kids) : i % 2 = 1 => Comparable(h, h[n].kids[i], Len(h))
          /\ \A i \in 1..Len(h[n].kids) : KindOf(h, h[n].kids[i]) # "invalid"
          /\ h[n].kind \in {"slice", "array"} =>
                \A i, j \in 1..Len(h[n].kids) :
                    KindOf(h, h[n].kids[i]) \in LeafKinds
                        => KindOf(h, h[n].kids[j]) = KindOf(h, h[n].kids[i])
    /\ \A m, n \in 1..Len(h) :
          h[m].kind \in {"uint", "uintptr"} /\ h[n].kind \in {"uint", "uintptr"}
              => Len(h[m].val) = Len(h[n].val)
    /\ NoInLineCycle(h)


----------------------------------------------------------------------------
(* reflect.Value, as far as the code reads it *)

NilPtr == <<0, 0>>

\* The size of the value in slot s, in units: by-value structs and arrays
\* hold their children in line.
RECURSIVE Size(_, _, _)
Size(h, s, fuel) ==
    IF s = 0 \/ fuel = 0 THEN 1
    ELSE IF h[s].kind \in {"struct", "array"}
         THEN LET RECURSIVE Sum(_)
                  Sum(j) == IF j = 0 THEN 0 ELSE Sum(j - 1) + Size(h, h[s].kids[j], fuel - 1)
              IN  Sum(Len(h[s].kids))
         ELSE 1

\* The offset of child j (from 1) in the storage of its parent.
Offset(h, kids, j) ==
    LET RECURSIVE Sum(_)
        Sum(m) == IF m = 0 THEN 0 ELSE Sum(m - 1) + Size(h, kids[m], Len(h))
    IN  Sum(j - 1)

\* A reflect.Value: the node (0: a leaf or an invalid Value), CanAddr and,
\* when addressable, the address.
Val(n, ca, addr) == [n |-> n, ca |-> ca, addr |-> addr]

\* reflect.ValueOf(v): the root, not addressable.
ValueOf(root) == Val(root, FALSE, NilPtr)

\* v.Elem(), v.Index(j - 1), v.Field(j - 1), and a map iterator's Key() and
\* Value(): child j of the value v.
Child(h, v, j) ==
    LET nd == h[v.n]
        k  == nd.kids[j]
    IN  CASE nd.kind = "ptr"    -> Val(k, TRUE, <<k, 0>>)
          [] nd.kind = "iface"  -> Val(k, FALSE, NilPtr)
          [] nd.kind = "slice"  -> Val(k, TRUE, <<v.n, Offset(h, nd.kids, j)>>)
          [] nd.kind = "map"    -> Val(k, FALSE, NilPtr)
          [] nd.kind = "rvalue" -> Val(k, FALSE, NilPtr)
          [] OTHER              -> Val(k, v.ca,
                                       IF v.ca THEN <<v.addr[1], v.addr[2] + Offset(h, nd.kids, j)>>
                                       ELSE NilPtr)

\* v.Pointer() of a slice or a map: the data pointer, 0 when nil.
Pointer(h, v) == IF h[v.n].nilv THEN NilPtr ELSE <<v.n, 0>>

\* A CanInterface() that is true for every Value (what reflect's is not).
AlwaysCanInterface(h, v) == TRUE

\* v.CanInterface(): false for a Value got through an unexported field.
CanInterface(h, v) == ~h[v.n].ro

\* The address of the type descriptor (the rtype that the field typ of a
\* reflect.Value and a reflect.Type point to) of the value in slot s: one
\* for each type, all in an allocation of their own.
KindOrder ==
    <<"ptr", "iface", "slice", "map", "struct", "array", "uint8", "uint16", "uint32",
      "uint64", "uint", "uintptr", "func", "chan", "invalid", "rvalue", "rtype">>
KindNumber(kind) == CHOOSE i \in 1..Len(KindOrder) : KindOrder[i] = kind
TypeDescriptor(h, s) ==
    IF s = 0 THEN <<0, 1>>
    ELSE <<0, 1 + 16 * KindNumber(h[s].kind)
                + (IF h[s].kind \in {"struct", "array"} THEN Len(h[s].kids) ELSE 0)>>

\* The type descriptor a handle points to: of the value a reflect.Value
\* holds, of int for a reflect.Type.
HandleType(h, n) ==
    IF h[n].kind = "rvalue" THEN TypeDescriptor(h, h[n].kids[1]) ELSE TypeDescriptor(h, 0)

\* v.IsValid().
IsValid(h, v) == h[v.n].kind # "invalid"

\* v.IsZero().
RECURSIVE IsZero(_, _, _)
IsZero(h, s, fuel) ==
    IF s = 0 THEN TRUE
    ELSE IF h[s].kind \in {"struct", "array"}
         THEN fuel = 0 \/ \A j \in 1..Len(h[s].kids) : IsZero(h, h[s].kids[j], fuel - 1)
    ELSE IF h[s].kind \in UnsignedKinds \cup {"uintptr"}
         THEN \A i \in 1..Len(h[s].val) : h[s].val[i] = 0
    ELSE h[s].nilv

TypeOf(h, n) ==
    IF h[n].kind \in {"struct", "array"} THEN <<h[n].kind, Len(h[n].kids)>>
    ELSE <<h[n].kind, 0>>

----------------------------------------------------------------------------
(* State *)

VARIABLES
    heap,               \* the value graph of the caller, laid out node by node
    cur,                \* the highest node the laid out nodes refer to
    budget,             \* the child slots the caller may still use
    customDescribers,   \* var customDescribers: reflect.Type -> CustomDescriber
    PanicOnError,       \* var PanicOnError
    writing,            \* per goroutine calling SetCustomDescriber: the map
                        \* assignment it is executing, or <<>>
    raced,              \* an unsynchronized concurrent access of the registry happened
    setLog,             \* the calls of SetCustomDescriber so far, as <<t, describer>>
    EnableUnsafeOperations,     \* var EnableUnsafeOperations
    hasExpectedReflectStruct,   \* var hasExpectedReflectStruct; false as well
                                \* in a build without the unsafe operations
    exposed,            \* per Describe call: it has called interfaceUnexported
    pc,                 \* per Describe call: where it is
    stack,              \* per Describe call: the frames of the recursion
    seenPointerCounts,  \* findDuplicates' local map
    scanOrder,          \* the keys of seenPointerCounts in the order they were added
    rangeOrder,         \* the keys the range loop of findDuplicates has yielded
    referenceName,      \* findDuplicates' local counter
    referenceNames,     \* descriptionContext.referenceNames
    seenReferences,     \* descriptionContext.seenReferences
    stringBuilder,      \* descriptionContext.stringBuilder, a sequence of tokens
    description,        \* the named result of Describe
    panicValue          \* per Describe call: the panic that unwound it, or ""

valueVars == <<heap, cur, budget>>
unsafeVars == <<EnableUnsafeOperations, hasExpectedReflectStruct>>
registryVars == <<customDescribers, PanicOnError, writing, raced, setLog, unsafeVars>>
scanVars == <<seenPointerCounts, scanOrder, rangeOrder, referenceName>>
contextVars == <<referenceNames, seenReferences, stringBuilder>>
callVars == <<pc, stack, scanVars, contextVars, description, panicValue, exposed>>
vars == <<valueVars, registryVars, callVars>>

Calls == DOMAIN pc
Setters == DOMAIN writing

EmptyMap == [x \in {} |-> 0]

\* The types SetCustomDescriber is called with, and the hooks it is given:
\* hOk returns a string, hFail panics, NilHook is a nil CustomDescriber.
HookTypes == {<<"struct", 2>>, <<"slice", 0>>}
NilHook == "nil"
Hooks == {"hOk", "hFail"}

\* The registry as the package initializes it.
InitialDescribers ==
    [t \in {<<"url.URL", 0>>, <<"time.Time", 0>>} |->
        IF t[1] = "url.URL" THEN "describeURL" ELSE "describeStringer"]

\* The panic values of the failures the code can raise.
ArrayPointerPanic == "reflect: call of reflect.Value.Pointer on array Value"
HookPanic == "hFail"

\* The string Describe returns for a recovered panic e.
ErrorString(e) == <<<<"go-describe: Unexpected error: ", e>>>>

\* The caller lays out the next node of the value it is going to describe.
NewNode ==
    /\ Len(heap) < cur
    /\ \E s \in Shapes(budget) : \E p \in KidSeqs(s.len, cur) :
          /\ heap' = Append(heap, MkNode(s.kind, p.kids, s.nilv))
          /\ cur' = p.cur
          /\ budget' = budget - s.len
    /\ UNCHANGED <<registryVars, callVars>>

\* The caller lays out a leaf as the next node of the value.
NewLeaf ==
    /\ Len(heap) < cur
    /\ \E leaf \in LeafShapes : heap' = Append(heap, leaf)
    /\ UNCHANGED <<cur, budget, registryVars, callVars>>

\* The caller lays out a handle as the next node of the value: a
\* reflect.Value of one of the value's nodes or of an int, or a reflect.Type,
\* in an exported place or in an unexported field.
NewHandle ==
    /\ Len(heap) < cur
    /\ \E ro \in BOOLEAN :
          \/ /\ budget >= 1
             /\ \E p \in KidSeqs(1, cur) :
                   /\ heap' = Append(heap, MkHandle("rvalue", p.kids, ro))
                   /\ cur' = p.cur
             /\ budget' = budget - 1
          \/ /\ heap' = Append(heap, MkHandle("rtype", <<>>, ro))
             /\ UNCHANGED <<cur, budget>>
    /\ UNCHANGED <<registryVars, callVars>>

\* The sequences of len slots that hold a leaf or a node of their own: the
\* values without a cycle and without a shared part are built from these.
RECURSIVE OwnKidSeqs(_, _)
OwnKidSeqs(len, last) ==
    IF len = 0 THEN {[kids |-> <<>>, cur |-> last]}
    ELSE UNION {{[kids |-> Append(p.kids, s), cur |-> IF s = 0 THEN p.cur ELSE s] :
                 s \in {0, p.cur + 1}} : p \in OwnKidSeqs(len - 1, last)}

\* Structs and slices, nil or with elements.
OwnShapes(b) ==
    {[kind |-> "slice", len |-> 0, nilv |-> TRUE]}
    \cup {[kind |-> k, len |-> n, nilv |-> FALSE] : k \in {"struct", "slice"}, n \in 1..b}

\* The caller lays out the next node of a value of structs and slices in
\* which no node is referred to twice.
NewOwnNode ==
    /\ Len(heap) < cur
    /\ \E s \in OwnShapes(budget) : \E p \in OwnKidSeqs(s.len, cur) :
          /\ heap' = Append(heap, MkNode(s.kind, p.kids, s.nilv))
          /\ cur' = p.cur
          /\ budget' = budget - s.len
    /\ UNCHANGED <<registryVars, callVars>>

\* No node of the graph is referred to twice, and none refers to the root.
Unshared(h) ==
    /\ \A m, n \in 1..Len(h) : \A i \in 1..Len(h[m].kids), j \in 1..Len(h[n].kids) :
          h[m].kids[i] # 0 /\ h[m].kids[i] = h[n].kids[j] => m = n /\ i = j
    /\ \A m \in 1..Len(h) : \A i \in 1..Len(h[m].kids) : h[m].kids[i] # 1

\* Whether the values in two slots of an unshared graph can be of one Go
\* type: the same kind, structs with fields of the same types, slices with
\* elements of the same type.
RECURSIVE SameType(_, _, _)
SameType(h, a, b) ==
    IF a = 0 \/ b = 0 THEN a = b
    ELSE /\ h[a].kind = h[b].kind
         /\ h[a].kind = "struct" =>
               /\ Len(h[a].kids) = Len(h[b].kids)
               /\ \A i \in 1..Len(h[a].kids) : SameType(h, h[a].kids[i], h[b].kids[i])
         /\ h[a].kind = "slice" =>
               \A i \in 1..Len(h[a].kids), j \in 1..Len(h[b].kids) :
                   SameType(h, h[a].kids[i], h[b].kids[j])

\* The elements of every slice are of one type.
Typed(h) ==
    \A n \in 1..Len(h) :
        h[n].kind = "slice" =>
            \A i, j \in 1..Len(h[n].kids) : SameType(h, h[n].kids[i], h[n].kids[j])

\* The value is complete and is one a Go program can hold.
ValueReady == Len(heap) = cur /\ WellFormed(heap)

InitValue(slots) == heap = <<>> /\ cur = 1 /\ budget = slots

InitCalls(calls) ==
    /\ pc = [c \in calls |-> "idle"]
    /\ stack = [c \in calls |-> <<>>]
    /\ seenPointerCounts = [c \in calls |-> EmptyMap]
    /\ scanOrder = [c \in calls |-> <<>>]
    /\ rangeOrder = [c \in calls |-> <<>>]
    /\ referenceName = [c \in calls |-> 0]
    /\ referenceNames = [c \in calls |-> EmptyMap]
    /\ seenReferences = [c \in calls |-> {}]
    /\ stringBuilder = [c \in calls |-> <<>>]
    /\ description = [c \in calls |-> <<>>]
    /\ panicValue = [c \in calls |-> ""]
    /\ exposed = [c \in calls |-> FALSE]

\* The package as init() leaves it in a build of one of the given kinds:
\* with the unsafe operations (hasExpectedReflectStruct is true) or without.
InitUnsafe(builds) ==
    /\ EnableUnsafeOperations = TRUE
    /\ hasExpectedReflectStruct \in builds

InitDescribers(setters) ==
    /\ customDescribers = InitialDescribers
    /\ PanicOnError = FALSE
    /\ writing = [s \in setters |-> <<>>]
    /\ raced = FALSE
    /\ setLog = <<>>

InitRegistry(setters) == InitDescribers(setters) /\ InitUnsafe({TRUE})

----------------------------------------------------------------------------
(* Describe: entry, and the boundary that recovers panics *)

\* The Go runtime has not aborted the process.
Alive == \A c \in Calls : pc[c] # "fatal"

\* A call of findDuplicatesInternal(_, v) or of describeReflect(v, false),
\* and a call of describeReflect(v, asHex).
Frame(v) == [v |-> v, at |-> "enter", i |-> 0, asHex |-> FALSE]
HexFrame(v, asHex) == [Frame(v) EXCEPT !.asHex = asHex]
Top(c) == stack[c][Len(stack[c])]
Pop(st) == SubSeq(st, 1, Len(st) - 1)
SetTop(st, f) == [st EXCEPT ![Len(st)] = f]

\* One descriptionContext for all calls (what Describe does not have).
SharedCtx(c) == 1

\* The descriptionContext a call works on: its own, a local of Describe.
Ctx(c) == c

\* A call that starts on the count map the call before it left behind (what
\* findDuplicates, which makes its map anew, does not do).
StartOnOldCounts(c) ==
    /\ Alive /\ ValueReady
    /\ pc[c] = "idle"
    /\ pc' = [pc EXCEPT ![c] = "scan"]
    /\ stack' = [stack EXCEPT ![c] = <<Frame(ValueOf(1))>>]
    /\ seenPointerCounts' = [seenPointerCounts EXCEPT ![c] =
                                IF c - 1 \in Calls THEN seenPointerCounts[c - 1] ELSE @]
    /\ UNCHANGED <<valueVars, registryVars, scanOrder, rangeOrder, referenceName,
                   contextVars, description, panicValue, exposed>>

\* Describe(v) up to the first call of findDuplicatesInternal: the deferred
\* function is set, the context is made, describe takes reflect.ValueOf(v)
\* and findDuplicates makes its count map.
Start(c) ==
    /\ Alive /\ ValueReady
    /\ pc[c] = "idle"
    /\ pc' = [pc EXCEPT ![c] = "scan"]
    /\ stack' = [stack EXCEPT ![c] = <<Frame(ValueOf(1))>>]
    /\ seenPointerCounts' = [seenPointerCounts EXCEPT ![c] = EmptyMap]
    /\ scanOrder' = [scanOrder EXCEPT ![c] = <<>>]
    /\ rangeOrder' = [rangeOrder EXCEPT ![c] = <<>>]
    /\ referenceName' = [referenceName EXCEPT ![c] = 0]
    /\ referenceNames' = [referenceNames EXCEPT ![Ctx(c)] = EmptyMap]
    /\ seenReferences' = [seenReferences EXCEPT ![Ctx(c)] = {}]
    /\ stringBuilder' = [stringBuilder EXCEPT ![Ctx(c)] = <<>>]
    /\ description' = [description EXCEPT ![c] = <<>>]
    /\ panicValue' = [panicValue EXCEPT ![c] = ""]
    /\ exposed' = [exposed EXCEPT ![c] = FALSE]
    /\ UNCHANGED <<valueVars, registryVars>>

\* A panic with value e unwinds the call to the deferred function of
\* Describe, which recovers it into the result unless PanicOnError is set.
Panic(c, e) ==
    /\ panicValue' = [panicValue EXCEPT ![c] = e]
    /\ stack' = [stack EXCEPT ![c] = <<>>]
    /\ pc' = [pc EXCEPT ![c] = IF PanicOnError THEN "panicked" ELSE "done"]
    /\ description' = [description EXCEPT ![c] =
                          IF PanicOnError THEN <<>> ELSE ErrorString(e)]

\* A nested call that the goroutine's stack has no room for: the runtime
\* aborts the process ("fatal error: stack overflow"); no recover sees it.
StackOverflow(c) ==
    /\ pc' = [pc EXCEPT ![c] = "fatal"]
    /\ UNCHANGED <<stack, description, panicValue>>

\* The runtime aborts the process from the goroutine of call c for a map
\* access it found to be concurrent with an assignment.
MapThrow(c) ==
    /\ pc' = [pc EXCEPT ![c] = "fatal"]
    /\ UNCHANGED <<stack, description, panicValue>>

----------------------------------------------------------------------------
(* The duplicates finder *)

\* A scan that counts every struct (what findDuplicatesInternal does not do).
TrackedAlways(h, v) == h[v.n].kind \in {"slice", "map", "struct"}

\* Whether findDuplicatesInternal counts v, and the key it counts it under.
\* (A reflect.Value is a struct to it.)
Tracked(h, v) ==
    \/ h[v.n].kind \in {"slice", "map"}
    \/ h[v.n].kind \in {"struct", "rvalue"} /\ v.ca

ScanPointer(h, v) == IF h[v.n].kind \in {"struct", "rvalue"} THEN v.addr ELSE Pointer(h, v)

\* The children findDuplicatesInternal recurses into: a map's values only.
ScanCount(h, n) == IF h[n].kind = "map" THEN Len(h[n].kids) \div 2 ELSE Len(h[n].kids)
ScanSlot(h, n, i) == IF h[n].kind = "map" THEN 2 * i ELSE i

\* findDuplicatesInternal returns; when it returns to findDuplicates, that
\* sets referenceName to 1 and makes the table.
ScanReturn(c) ==
    /\ stack' = [stack EXCEPT ![c] = Pop(@)]
    /\ IF Len(stack[c]) = 1
       THEN /\ pc' = [pc EXCEPT ![c] = "build"]
            /\ referenceName' = [referenceName EXCEPT ![c] = 1]
       ELSE UNCHANGED <<pc, referenceName>>
    /\ UNCHANGED <<description, panicValue>>

\* findDuplicatesInternal(seenPointerCounts, v) from its entry to its loop.
ScanEnter(c) ==
    /\ Alive /\ pc[c] = "scan" /\ Top(c).at = "enter"
    /\ LET v == Top(c).v
           counts == seenPointerCounts[c]
       IN  IF heap[v.n].kind = "array"
           THEN /\ Panic(c, ArrayPointerPanic)
                /\ UNCHANGED <<seenPointerCounts, scanOrder, referenceName>>
           ELSE IF Tracked(heap, v) /\ ScanPointer(heap, v) \in DOMAIN counts
           THEN /\ seenPointerCounts' = [seenPointerCounts EXCEPT
                                            ![c][ScanPointer(heap, v)] = @ + 1]
                /\ ScanReturn(c)
                /\ UNCHANGED scanOrder
           ELSE /\ seenPointerCounts' = [seenPointerCounts EXCEPT ![c] =
                       IF Tracked(heap, v) THEN (ScanPointer(heap, v) :> 1) @@ counts
                       ELSE counts]
                /\ scanOrder' = [scanOrder EXCEPT ![c] =
                       IF Tracked(heap, v) THEN Append(@, ScanPointer(heap, v)) ELSE @]
                /\ stack' = [stack EXCEPT ![c] = SetTop(@, [Top(c) EXCEPT !.at = "loop"])]
                /\ UNCHANGED <<pc, referenceName, description, panicValue>>
    /\ UNCHANGED <<valueVars, registryVars, rangeOrder, contextVars, exposed>>

\* One turn of findDuplicatesInternal's loop over the children of v (the one
\* call, for a pointer or an interface): the recursive call, or the return.
\* A call on a leaf or on the invalid Value of a nil pointer returns at once.
\* Of a handle the calls reach the type descriptor, a struct behind a
\* pointer, and count it; its fields are leaves, and the value a
\* reflect.Value holds is behind an unsafe.Pointer, which no case follows.
ScanLoop(c) ==
    /\ Alive /\ pc[c] = "scan" /\ Top(c).at = "loop"
    /\ LET f == Top(c)
           j == ScanSlot(heap, f.v.n, f.i + 1)
           counts == seenPointerCounts[c]
           typ == HandleType(heap, f.v.n)
       IN  IF heap[f.v.n].kind \in HandleKinds
           THEN /\ seenPointerCounts' = [seenPointerCounts EXCEPT ![c] =
                       IF typ \in DOMAIN counts THEN [counts EXCEPT ![typ] = @ + 1]
                       ELSE (typ :> 1) @@ counts]
                /\ scanOrder' = [scanOrder EXCEPT ![c] =
                       IF typ \in DOMAIN counts THEN @ ELSE Append(@, typ)]
                /\ ScanReturn(c)
           ELSE IF f.i >= ScanCount(heap, f.v.n)
           THEN ScanReturn(c) /\ UNCHANGED <<seenPointerCounts, scanOrder>>
           ELSE IF heap[f.v.n].kids[j] = 0
           THEN /\ stack' = [stack EXCEPT ![c] = SetTop(@, [f EXCEPT !.i = @ + 1])]
                /\ UNCHANGED <<pc, referenceName, description, panicValue>>
                /\ UNCHANGED <<seenPointerCounts, scanOrder>>
           ELSE IF Len(stack[c]) >= MaxStack
           THEN StackOverflow(c) /\ UNCHANGED <<referenceName, seenPointerCounts, scanOrder>>
           ELSE /\ stack' = [stack EXCEPT ![c] =
                                Append(SetTop(@, [f EXCEPT !.i = @ + 1]),
                                       Frame(Child(heap, f.v, j)))]
                /\ UNCHANGED <<pc, referenceName, description, panicValue>>
                /\ UNCHANGED <<seenPointerCounts, scanOrder>>
    /\ UNCHANGED <<valueVars, registryVars, rangeOrder, contextVars, exposed>>

Range(seq) == {seq[i] : i \in 1..Len(seq)}

\* A test that names every counted pointer (what findDuplicates does not do).
AnyCount(count) == count > 0

\* findDuplicates' test of a count: the pointer gets a reference name.
Duplicate(count) == count > 1

\* A counter that goes down (what findDuplicates does not do).
PreviousName(name) == name - 1

\* referenceName++
NextName(name) == name + 1

\* One turn of findDuplicates' loop "for pointer, count := range
\* seenPointerCounts": Go yields the keys of a map in an unspecified order.
BuildLoop(c) ==
    /\ Alive /\ pc[c] = "build"
    /\ \E pointer \in DOMAIN seenPointerCounts[c] \ Range(rangeOrder[c]) :
          /\ rangeOrder' = [rangeOrder EXCEPT ![c] = Append(@, pointer)]
          /\ IF Duplicate(seenPointerCounts[c][pointer])
             THEN /\ referenceNames' = [referenceNames EXCEPT ![Ctx(c)] =
                                           (pointer :> referenceName[c]) @@ @]
                  /\ referenceName' = [referenceName EXCEPT ![c] = NextName(@)]
             ELSE UNCHANGED <<referenceNames, referenceName>>
    /\ UNCHANGED <<valueVars, registryVars, pc, stack, seenPointerCounts, scanOrder,
                   seenReferences, stringBuilder, description, panicValue, exposed>>

\* findDuplicates returns the table; describe resets the builder, makes the
\* seen set and calls describeReflect(rv, false).
RenderStart(c) ==
    /\ Alive /\ pc[c] = "build"
    /\ DOMAIN seenPointerCounts[c] = Range(rangeOrder[c])
    /\ pc' = [pc EXCEPT ![c] = "render"]
    /\ stack' = [stack EXCEPT ![c] = <<Frame(ValueOf(1))>>]
    /\ stringBuilder' = [stringBuilder EXCEPT ![Ctx(c)] = <<>>]
    /\ seenReferences' = [seenReferences EXCEPT ![Ctx(c)] = {}]
    /\ UNCHANGED <<valueVars, registryVars, scanVars, referenceNames, description,
                   panicValue, exposed>>

----------------------------------------------------------------------------
(* The description context *)

\* Whether describeReflect's reference check computes a pointer for v (an
\* array, a slice, a map, an addressable struct), and the pointer.
RefChecked(h, v) ==
    \/ h[v.n].kind \in {"array", "slice", "map"}
    \/ h[v.n].kind = "struct" /\ v.ca

RefPointer(h, v) == IF h[v.n].kind = "struct" THEN v.addr ELSE Pointer(h, v)

\* The opposite test, and a seen set that forgets (what describeReflect
\* does not do).
NotSeenBefore(seen, ptr) == ptr \notin seen
ForgetSeen(seen, ptr) == seen

\* Whether v is one describeReflect has written in full before, and the
\* seen set after "this.seenReferences[ptr] = true".
SeenBefore(seen, ptr) == ptr \in seen
MarkSeen(seen, ptr) == seen \cup {ptr}

\* Whether describeReflect indexes customDescribers for v.
ReadsRegistry(h, v) == IsValid(h, v) /\ ~IsZero(h, v.n, Len(h))

\* customDescribers[v.Type()] as the code uses it: the describer, or NilHook
\* when there is no entry or the entry is nil.
Lookup(reg, t) == IF t \in DOMAIN reg THEN reg[t] ELSE NilHook

\* An asHex that is never set, and a describeReflect that writes nothing
\* for a value without children (what the code does not do).
NeverAsHex(h, n) == FALSE
NoLeafText(h, n, asHex) == <<>>

\* An asHex that is set for the children of every value (what describeMap,
\* describeStruct and describeReflect do not do).
AlwaysAsHex(h, n) == TRUE

\* describeArray's asHex: whether the element type of the array or slice n
\* is one of Uint, Uint8, Uint16, Uint32, Uint64.  describeMap,
\* describeStruct and describeReflect itself pass false.
ElementsAsHex(h, n) ==
    /\ h[n].kind \in {"slice", "array"}
    /\ Len(h[n].kids) > 0
    /\ KindOf(h, h[n].kids[1]) \in UnsignedKinds

\* The digits of the verb %x for a value: lower case, no leading zero.
HexDigit(d) ==
    <<"0", "1", "2", "3", "4", "5", "6", "7", "8", "9", "a", "b", "c", "d", "e", "f">>[d + 1]

RECURSIVE StripZeros(_)
StripZeros(val) ==
    IF Len(val) > 1 /\ val[1] = 0 THEN StripZeros(Tail(val)) ELSE val

\* The flag 0 with a width: zeros in front up to the width, and never fewer
\* digits than the value has.
RECURSIVE PadZeros(_, _)
PadZeros(digits, width) ==
    IF Len(digits) >= width THEN digits ELSE PadZeros(<<"0">> \o digits, width)

\* fmt.Sprintf("%0<width>x", v), after the "0x" of the format.
SprintfHex(val, width) ==
    PadZeros([i \in 1..Len(StripZeros(val)) |-> HexDigit(StripZeros(val)[i])], width)

\* The widths in the formats of describeUint8, 16, 32, 64 and describeUint.
HexWidth(kind) ==
    CASE kind = "uint8" -> 2
      [] kind = "uint16" -> 4
      [] kind = "uint32" -> 8
      [] kind = "uint64" -> 16
      [] OTHER -> 8

\* What describeReflect writes for a value without children: an unsigned
\* integer in hexadecimal or with %v, a uintptr with %v, nothing for a
\* function or a channel, "invalid" for the invalid Value.
LeafText(h, n, asHex) ==
    CASE h[n].kind \in UnsignedKinds ->
            IF asHex THEN <<<<"0x", SprintfHex(h[n].val, HexWidth(h[n].kind))>>>>
            ELSE <<<<"dec", h[n].val>>>>
      [] h[n].kind = "uintptr" -> <<<<"dec", h[n].val>>>>
      [] h[n].kind = "invalid" -> <<<<"invalid", 0>>>>
      [] OTHER -> <<>>

\* A pointer or interface that is never taken to be nil (what
\* describeReflect does not assume).
NeverNil(h, v) == FALSE

\* v.IsNil() for a pointer or an interface.
IsNil(h, v) == h[v.n].nilv

\* Separators without the names of the fields (what describeStruct does
\* not write).
BeforeUnnamed(h, n, j) == IF j > 1 THEN <<<<"sep", 0>>>> ELSE <<>>

\* What describeArray, describeMap and describeStruct write before child j:
\* the item separator, the key-value separator, the field's name.
Before(h, n, j) ==
    CASE h[n].kind \in {"slice", "array"} -> IF j > 1 THEN <<<<"sep", 0>>>> ELSE <<>>
      [] h[n].kind = "map" -> IF j % 2 = 0 THEN <<<<"kv", 0>>>>
                              ELSE IF j > 1 THEN <<<<"sep", 0>>>> ELSE <<>>
      [] h[n].kind = "struct" -> (IF j > 1 THEN <<<<"sep", 0>>>> ELSE <<>>) \o <<<<"field", j>>>>
      [] OTHER -> <<>>

\* describeReflect, or a helper it called for v, returns; when the outermost
\* call returns, describe returns the builder's string, buf, to Describe.
RenderReturn(c, buf) ==
    /\ stack' = [stack EXCEPT ![c] = Pop(@)]
    /\ IF Len(stack[c]) = 1
       THEN /\ pc' = [pc EXCEPT ![c] = "done"]
            /\ description' = [description EXCEPT ![c] = buf]
       ELSE UNCHANGED <<pc, description>>
    /\ UNCHANGED panicValue

\* canInterfaceUnexported(); in a build without the unsafe operations it
\* returns false, as it does here when hasExpectedReflectStruct is false.
canInterfaceUnexported == hasExpectedReflectStruct /\ EnableUnsafeOperations

\* What describeReflect writes for a handle it does not unwrap:
\* fmt.Sprintf("%v", v), the default form of the Value v.
DefaultForm(n) == <<"%v", n>>

\* The special case at the entry of describeReflect(v, asHex), for a v that
\* is a reflect.Value or a reflect.Type (and not zero): the bracket with
\* the marker, and in it the value the handle holds (described by the loop,
\* with the same asHex), the type's name, or the default form of v.
DescribeHandle(c) ==
    LET v == Top(c).v
        n == v.n
        buf == stringBuilder[Ctx(c)]
        unwraps == CanInterface(heap, v) \/ canInterfaceUnexported
        unsafely == ~CanInterface(heap, v) /\ canInterfaceUnexported
        opened == Append(buf, <<"reflect.Value(", n>>)
        fallback == <<<<"reflect.Value(", n>>, DefaultForm(n), <<"close", n>>>>
        typeText == <<<<"reflect.Type(", n>>,
                      IF unwraps THEN <<"type", n>> ELSE DefaultForm(n),
                      <<"close", n>>>>
    IN  /\ exposed' = [exposed EXCEPT ![c] = @ \/ unsafely]
        /\ UNCHANGED seenReferences
        /\ IF heap[n].kind = "rvalue" /\ unwraps
           THEN /\ stringBuilder' = [stringBuilder EXCEPT ![Ctx(c)] = opened]
                /\ stack' = [stack EXCEPT ![c] = SetTop(@, [Top(c) EXCEPT !.at = "loop"])]
                /\ UNCHANGED <<pc, description, panicValue>>
           ELSE IF heap[n].kind = "rvalue"
           THEN /\ stringBuilder' = [stringBuilder EXCEPT ![Ctx(c)] = buf \o fallback]
                /\ RenderReturn(c, buf \o fallback)
           ELSE /\ stringBuilder' = [stringBuilder EXCEPT ![Ctx(c)] = buf \o typeText]
                /\ RenderReturn(c, buf \o typeText)

\* describeReflect(v, asHex) past the special case, from the reference
\* check to the loop of the helper it dispatches to, given the describer hk
\* that the registry yields for v: the reference check, the custom
\* describer, the default for the kind.
DescribeByKind(c, hk) ==
    LET v == Top(c).v
        k == heap[v.n].kind
        names == referenceNames[Ctx(c)]
        seen == seenReferences[Ctx(c)]
        buf == stringBuilder[Ctx(c)]
        ptr == RefPointer(heap, v)
        labelled == RefChecked(heap, v) /\ ptr \in DOMAIN names
        buf1 == IF labelled THEN Append(buf, <<"def", names[ptr]>>) ELSE buf
        seen1 == IF labelled THEN MarkSeen(seen, ptr) ELSE seen
    IN  IF k = "array"
        THEN /\ Panic(c, ArrayPointerPanic)
             /\ UNCHANGED <<stringBuilder, seenReferences>>
        ELSE IF labelled /\ SeenBefore(seen, ptr)
        THEN /\ stringBuilder' = [stringBuilder EXCEPT ![Ctx(c)] = Append(buf, <<"ref", names[ptr]>>)]
             /\ RenderReturn(c, Append(buf, <<"ref", names[ptr]>>))
             /\ UNCHANGED seenReferences
        ELSE /\ seenReferences' = [seenReferences EXCEPT ![Ctx(c)] = seen1]
             /\ IF hk # NilHook /\ hk = HookPanic
                THEN /\ Panic(c, HookPanic)
                     /\ stringBuilder' = [stringBuilder EXCEPT ![Ctx(c)] = buf1]
                ELSE IF hk # NilHook
                THEN /\ stringBuilder' = [stringBuilder EXCEPT ![Ctx(c)] = Append(buf1, <<hk, v.n>>)]
                     /\ RenderReturn(c, Append(buf1, <<hk, v.n>>))
                ELSE IF k \in {"ptr", "iface"} /\ IsNil(heap, v)
                THEN /\ stringBuilder' = [stringBuilder EXCEPT ![Ctx(c)] = Append(buf1, <<"nil", 0>>)]
                     /\ RenderReturn(c, Append(buf1, <<"nil", 0>>))
                ELSE IF k \in LeafKinds
                THEN /\ stringBuilder' = [stringBuilder EXCEPT ![Ctx(c)] =
                                              buf1 \o LeafText(heap, v.n, Top(c).asHex)]
                     /\ RenderReturn(c, buf1 \o LeafText(heap, v.n, Top(c).asHex))
                ELSE /\ stringBuilder' = [stringBuilder EXCEPT ![Ctx(c)] =
                            Append(buf1, IF k \in {"ptr", "iface"} THEN <<k, 0>> ELSE <<"open", v.n>>)]
                     /\ stack' = [stack EXCEPT ![c] = SetTop(@, [Top(c) EXCEPT !.at = "loop"])]
                     /\ UNCHANGED <<pc, description, panicValue>>

\* describeReflect(v, asHex) from its entry: the special case for the
\* handles, or the rest.
RenderEnterWith(c, hk) ==
    IF heap[Top(c).v.n].kind \in HandleKinds
    THEN DescribeHandle(c)
    ELSE DescribeByKind(c, hk) /\ UNCHANGED exposed

\* Whether the call of describeReflect that c is entering gets as far as
\* indexing customDescribers, and whether it does so while a goroutine is
\* in the middle of assigning to that map.
ReadsAt(c) ==
    LET v == Top(c).v
        ptr == RefPointer(heap, v)
    IN  /\ heap[v.n].kind \notin HandleKinds \cup {"array"}
        /\ ~ ( /\ RefChecked(heap, v)
               /\ ptr \in DOMAIN referenceNames[Ctx(c)]
               /\ SeenBefore(seenReferences[Ctx(c)], ptr) )
        /\ ReadsRegistry(heap, v)

Racing(c) == ReadsAt(c) /\ \E s \in Setters : writing[s] # <<>>

RenderEnter(c) ==
    /\ Alive /\ pc[c] = "render" /\ Top(c).at = "enter"
    /\ ~Racing(c)
    /\ RenderEnterWith(c, IF ReadsRegistry(heap, Top(c).v)
                          THEN Lookup(customDescribers, TypeOf(heap, Top(c).v.n))
                          ELSE NilHook)
    /\ UNCHANGED <<valueVars, registryVars, scanVars, referenceNames>>

\* One turn of the loop of describeArray, describeMap or describeStruct over
\* the children of v (the one call, for a pointer or an interface): what is
\* written before the child and the recursive call, or the closing bracket
\* and the return.  describeReflect on a leaf writes it and returns at once.
\* For a reflect.Value the one call is that of the special case.
RenderLoop(c) ==
    /\ Alive /\ pc[c] = "render" /\ Top(c).at = "loop"
    /\ LET f == Top(c)
           nd == heap[f.v.n]
           buf == stringBuilder[Ctx(c)]
           j == f.i + 1
           closed == IF nd.kind \in {"ptr", "iface"} THEN buf ELSE Append(buf, <<"close", f.v.n>>)
       IN  IF f.i >= Len(nd.kids)
           THEN /\ stringBuilder' = [stringBuilder EXCEPT ![Ctx(c)] = closed]
                /\ RenderReturn(c, closed)
           ELSE IF nd.kids[j] = 0
           THEN /\ stringBuilder' = [stringBuilder EXCEPT ![Ctx(c)] =
                                        (buf \o Before(heap, f.v.n, j)) \o <<<<"int", 0>>>>]
                /\ stack' = [stack EXCEPT ![c] = SetTop(@, [f EXCEPT !.i = j])]
                /\ UNCHANGED <<pc, description, panicValue>>
           ELSE IF Len(stack[c]) >= MaxStack
           THEN StackOverflow(c) /\ UNCHANGED stringBuilder
           ELSE /\ stringBuilder' = [stringBuilder EXCEPT ![Ctx(c)] = buf \o Before(heap, f.v.n, j)]
                /\ stack' = [stack EXCEPT ![c] =
                                Append(SetTop(@, [f EXCEPT !.i = j]),
                                       HexFrame(Child(heap, f.v, j),
                                                IF nd.kind = "rvalue" THEN f.asHex
                                                ELSE ElementsAsHex(heap, f.v.n)))]
                /\ UNCHANGED <<pc, description, panicValue>>
    /\ UNCHANGED <<valueVars, registryVars, scanVars, referenceNames, seenReferences, exposed>>

----------------------------------------------------------------------------
(* Describe as a function: what one call computes when nothing else runs *)

\* findDuplicatesInternal(seenPointerCounts, v) at nesting depth, on the
\* scan state st = [counts, out]; out tells how the scan went so far: "ok",
\* "panic" (v.Pointer() on an array) or "fatal" (the stack is exhausted).
RECURSIVE ScanValue(_, _, _, _), ScanKids(_, _, _, _, _)
ScanValue(h, v, st, depth) ==
    IF st.out # "ok" THEN st
    ELSE IF depth > MaxStack THEN [st EXCEPT !.out = "fatal"]
    ELSE IF h[v.n].kind = "array" THEN [st EXCEPT !.out = "panic"]
    ELSE IF Tracked(h, v) /\ ScanPointer(h, v) \in DOMAIN st.counts
    THEN [st EXCEPT !.counts[ScanPointer(h, v)] = @ + 1]
    ELSE ScanKids(h, v, 1,
                  [st EXCEPT !.counts = IF Tracked(h, v)
                                        THEN (ScanPointer(h, v) :> 1) @@ @ ELSE @],
                  depth)

ScanKids(h, v, i, st, depth) ==
    IF st.out # "ok" \/ i > ScanCount(h, v.n) THEN st
    ELSE LET j == ScanSlot(h, v.n, i) IN
         ScanKids(h, v, i + 1,
                  IF h[v.n].kids[j] = 0 THEN st
                  ELSE ScanValue(h, Child(h, v, j), st, depth + 1),
                  depth)

\* The scan of the value whose root is node 1.
ScanAlone(h) == ScanValue(h, ValueOf(1), [counts |-> EmptyMap, out |-> "ok"], 1)

\* Tables in which two pointers may have one name (what findDuplicates
\* does not return).
TablesWithClashes(counts) ==
    LET dups == {p \in DOMAIN counts : Duplicate(counts[p])} IN
    [dups -> 1..Cardinality(dups)]

\* The tables findDuplicates can return for a map of counts: one for each
\* order in which the range can yield the pointers counted more than once.
Tables(counts) ==
    LET dups == {p \in DOMAIN counts : Duplicate(counts[p])} IN
    {names \in [dups -> 1..Cardinality(dups)] :
        \A a, b \in dups : a # b => names[a] # names[b]}

\* describeReflect(v, asHex) at nesting depth, on the render state
\* st = [buf, seen, out, e], with the table names and the registry reg;
\* asHex is the argument of that name.  (For values without a
\* reflect.Value or a reflect.Type: the special case that comes first in
\* describeReflect is not part of this function.)
RECURSIVE RenderValue(_, _, _, _, _, _, _), RenderKids(_, _, _, _, _, _, _)
RenderValue(h, v, asHex, names, reg, st, depth) ==
    LET k == h[v.n].kind
        ptr == RefPointer(h, v)
        labelled == RefChecked(h, v) /\ ptr \in DOMAIN names
        st1 == IF labelled
               THEN [st EXCEPT !.buf = Append(@, <<"def", names[ptr]>>),
                               !.seen = @ \cup {ptr}]
               ELSE st
        hk == IF ReadsRegistry(h, v) THEN Lookup(reg, TypeOf(h, v.n)) ELSE NilHook
        inner == RenderKids(h, v, names, reg, 1,
                            [st1 EXCEPT !.buf = Append(@, IF k \in {"ptr", "iface"}
                                                          THEN <<k, 0>> ELSE <<"open", v.n>>)],
                            depth)
    IN  IF st.out # "ok" THEN st
        ELSE IF depth > MaxStack THEN [st EXCEPT !.out = "fatal"]
        ELSE IF k = "array" THEN [st EXCEPT !.out = "panic", !.e = ArrayPointerPanic]
        ELSE IF labelled /\ ptr \in st.seen
        THEN [st EXCEPT !.buf = Append(@, <<"ref", names[ptr]>>)]
        ELSE IF hk # NilHook /\ hk = HookPanic
        THEN [st1 EXCEPT !.out = "panic", !.e = HookPanic]
        ELSE IF hk # NilHook
        THEN [st1 EXCEPT !.buf = Append(@, <<hk, v.n>>)]
        ELSE IF k \in {"ptr", "iface"} /\ h[v.n].nilv
        THEN [st1 EXCEPT !.buf = Append(@, <<"nil", 0>>)]
        ELSE IF k \in LeafKinds
        THEN [st1 EXCEPT !.buf = @ \o LeafText(h, v.n, asHex)]
        ELSE IF inner.out # "ok" \/ k \in {"ptr", "iface"} THEN inner
        ELSE [inner EXCEPT !.buf = Append(@, <<"close", v.n>>)]

RenderKids(h, v, names, reg, j, st, depth) ==
    IF st.out # "ok" \/ j > Len(h[v.n].kids) THEN st
    ELSE LET pre == [st EXCEPT !.buf = @ \o Before(h, v.n, j)] IN
         RenderKids(h, v, names, reg, j + 1,
                    IF h[v.n].kids[j] = 0
                    THEN [pre EXCEPT !.buf = Append(@, <<"int", 0>>)]
                    ELSE RenderValue(h, Child(h, v, j), ElementsAsHex(h, v.n),
                                     names, reg, pre, depth + 1),
                    depth)

\* How a call ends that a panic with value e unwinds.
Recovered(flag, e) ==
    IF flag THEN [pc |-> "panicked", description |-> <<>>]
    ELSE [pc |-> "done", description |-> ErrorString(e)]

\* Describe(v) for the value whose root is node 1, run alone, when
\* findDuplicates returns the table names: how the call ends, and
\* the string it returns.
DescribeAlone(h, names, reg, flag) ==
    LET scan == ScanAlone(h)
        rendered == RenderValue(h, ValueOf(1), FALSE, names, reg,
                                [buf |-> <<>>, seen |-> {}, out |-> "ok", e |-> ""], 1)
    IN  IF scan.out = "fatal" THEN [pc |-> "fatal", description |-> <<>>]
        ELSE IF scan.out = "panic" THEN Recovered(flag, ArrayPointerPanic)
        ELSE IF rendered.out = "fatal" THEN [pc |-> "fatal", description |-> <<>>]
        ELSE IF rendered.out = "panic" THEN Recovered(flag, rendered.e)
        ELSE [pc |-> "done", description |-> rendered.buf]

\* What Describe can return for the value of root 1: one outcome for each
\* table findDuplicates can return.
Outcomes(h, reg, flag) ==
    {DescribeAlone(h, names, reg, flag) : names \in Tables(ScanAlone(h).counts)}

----------------------------------------------------------------------------
(* The registry and the flag *)

\* The number of SetCustomDescriber calls a program makes.
MaxSets == 2

\* A map assignment that keeps an entry that is there (what Go does not do).
AssignFirst(reg, t, describer) == reg @@ (t :> describer)

\* customDescribers[t] = describer
Assign(reg, t, describer) == (t :> describer) @@ reg

NoCallRunning == \A c \in Calls : pc[c] = "idle"

\* SetCustomDescriber(t, describer), called while no Describe is running.
SetCustomDescriber(t, describer) ==
    /\ Alive /\ NoCallRunning
    /\ Len(setLog) < MaxSets
    /\ customDescribers' = Assign(customDescribers, t, describer)
    /\ setLog' = Append(setLog, <<t, describer>>)
    /\ UNCHANGED <<valueVars, PanicOnError, writing, raced, unsafeVars, callVars>>

\* The caller assigns the exported variable PanicOnError.
SetPanicOnError(b) ==
    /\ Alive /\ NoCallRunning
    /\ PanicOnError # b
    /\ PanicOnError' = b
    /\ UNCHANGED <<valueVars, customDescribers, writing, raced, setLog, unsafeVars, callVars>>

\* The caller assigns the exported variable EnableUnsafeOperations.
SetEnableUnsafeOperations(b) ==
    /\ Alive /\ NoCallRunning
    /\ EnableUnsafeOperations # b
    /\ EnableUnsafeOperations' = b
    /\ UNCHANGED <<valueVars, customDescribers, PanicOnError, writing, raced, setLog,
                   hasExpectedReflectStruct, callVars>>

\* SetCustomDescriber(t, describer) on a goroutine s of its own: the map
\* assignment begins, and ends.  An assignment that begins while another
\* is under way is a write/write data race.
SetBegin(s, t, describer) ==
    /\ Alive
    /\ writing[s] = <<>>
    /\ Len(setLog) < MaxSets
    /\ writing' = [writing EXCEPT ![s] = <<t, describer>>]
    /\ setLog' = Append(setLog, <<t, describer>>)
    /\ raced' = (raced \/ \E o \in Setters \ {s} : writing[o] # <<>>)
    /\ UNCHANGED <<valueVars, customDescribers, PanicOnError, unsafeVars, callVars>>

SetEnd(s) ==
    /\ Alive
    /\ writing[s] # <<>>
    /\ customDescribers' = Assign(customDescribers, writing[s][1], writing[s][2])
    /\ writing' = [writing EXCEPT ![s] = <<>>]
    /\ UNCHANGED <<valueVars, PanicOnError, raced, setLog, unsafeVars, callVars>>

\* The runtime's check of a map under assignment by two goroutines fires:
\* "fatal error: concurrent map writes".
SetThrow(s) ==
    /\ Alive
    /\ writing[s] # <<>>
    /\ \E o \in Setters \ {s} : writing[o] # <<>>
    /\ pc' = [c \in Calls |-> "fatal"]
    /\ UNCHANGED <<valueVars, registryVars, stack, scanVars, contextVars,
                   description, panicValue, exposed>>

\* describeReflect indexes customDescribers while an assignment to it is
\* under way, a read/write data race: the read yields the entry as it was
\* or as it is being written.
RenderEnterRacing(c) ==
    /\ Alive /\ pc[c] = "render" /\ Top(c).at = "enter"
    /\ Racing(c)
    /\ raced' = TRUE
    /\ LET t == TypeOf(heap, Top(c).v.n) IN
       \E hk \in {Lookup(customDescribers, t)}
                 \cup {writing[s][2] : s \in {o \in Setters : writing[o] # <<>> /\ writing[o][1] = t}} :
           RenderEnterWith(c, hk)
    /\ UNCHANGED <<valueVars, customDescribers, PanicOnError, writing, setLog, unsafeVars,
                   scanVars, referenceNames>>

\* The same read, caught by the runtime's check: "fatal error: concurrent
\* map read and map write".
RenderEnterThrow(c) ==
    /\ Alive /\ pc[c] = "render" /\ Top(c).at = "enter"
    /\ Racing(c)
    /\ raced' = TRUE
    /\ MapThrow(c)
    /\ UNCHANGED <<valueVars, customDescribers, PanicOnError, writing, setLog, unsafeVars,
                   scanVars, contextVars, exposed>>

----------------------------------------------------------------------------
(* The program that only describes: one goroutine builds a value and calls
   Describe on it, with the registry and the flag as the package
   initializes them. *)

Init == InitValue(MaxSlots) /\ InitCalls({1}) /\ InitRegistry({})
Next ==
    \/ NewNode
    \/ \E c \in Calls : Start(c)
    \/ \E c \in Calls : ScanEnter(c)
    \/ \E c \in Calls : ScanLoop(c)
    \/ \E c \in Calls : BuildLoop(c)
    \/ \E c \in Calls : RenderStart(c)
    \/ \E c \in Calls : RenderEnter(c)
    \/ \E c \in Calls : RenderLoop(c)
Spec == Init /\ [][Next]_vars

(* The program that sets custom describers and the flag, and then builds a
   value and describes it, all on one goroutine. *)

\* The number of child slots of the values described under custom describers.
HookSlots == 2

InitHooks == InitValue(HookSlots) /\ InitCalls({1}) /\ InitRegistry({})
NextHooks ==
    \/ \E t \in HookTypes, describer \in Hooks \cup {NilHook} : SetCustomDescriber(t, describer)
    \/ \E b \in BOOLEAN : SetPanicOnError(b)
    \/ Next
SpecHooks == InitHooks /\ [][NextHooks]_vars

(* The program that describes one value on two goroutines at once. *)

\* The number of child slots of the values described concurrently.
ConcSlots == 2

InitConc == InitValue(ConcSlots) /\ InitCalls({1, 2}) /\ InitRegistry({})
SpecConc == InitConc /\ [][Next]_vars

(* The program that describes a value on one goroutine while two others
   call SetCustomDescriber. *)

\* The number of child slots of the values described during registrations.
RaceSlots == 1

InitRace == InitValue(RaceSlots) /\ InitCalls({1}) /\ InitRegistry({1, 2})
NextRace ==
    \/ \E s \in Setters, t \in HookTypes, describer \in Hooks \cup {NilHook} : SetBegin(s, t, describer)
    \/ \E s \in Setters : SetEnd(s)
    \/ \E s \in Setters : SetThrow(s)
    \/ \E c \in Calls : RenderEnterRacing(c)
    \/ \E c \in Calls : RenderEnterThrow(c)
    \/ Next
SpecRace == InitRace /\ [][NextRace]_vars

(* The program that describes a value that holds integers, functions and
   channels, or no value at all. *)

\* The number of child slots of the values with such leaves.
LeafSlots == 2

InitLeaves == InitValue(LeafSlots) /\ InitCalls({1}) /\ InitRegistry({})
NextLeaves == NewLeaf \/ Next
SpecLeaves == InitLeaves /\ [][NextLeaves]_vars

(* The program that builds a value of structs and slices without a cycle
   and without a shared part, and describes it twice, one call after the
   other. *)

\* The number of child slots of the values described twice.
TwiceSlots == 5

\* The most addresses findDuplicates counts in a value described twice.
TwicePointers == 3

\* A call of Describe that the goroutine makes after the calls before it
\* have returned, on a value whose slices have elements of one type and in
\* which findDuplicates counts at most TwicePointers addresses.
StartAfter(c) ==
    /\ \A b \in Calls : b < c => pc[b] = "done"
    /\ ValueReady /\ Typed(heap)
    /\ Cardinality(DOMAIN ScanAlone(heap).counts) <= TwicePointers
    /\ Start(c)

InitTwice == InitValue(TwiceSlots) /\ InitCalls({1, 2}) /\ InitRegistry({})
NextTwice ==
    \/ NewOwnNode
    \/ \E c \in Calls : StartAfter(c)
    \/ \E c \in Calls : ScanEnter(c)
    \/ \E c \in Calls : ScanLoop(c)
    \/ \E c \in Calls : BuildLoop(c)
    \/ \E c \in Calls : RenderStart(c)
    \/ \E c \in Calls : RenderEnter(c)
    \/ \E c \in Calls : RenderLoop(c)
SpecTwice == InitTwice /\ [][NextTwice]_vars

(* The program that builds a value that holds reflect.Values and
   reflect.Types, sets EnableUnsafeOperations and describes the value, in a
   build with the unsafe operations or in one without. *)

\* The number of child slots of the values with handles.
HandleSlots == 2

InitHandles ==
    /\ InitValue(HandleSlots) /\ InitCalls({1})
    /\ InitDescribers({}) /\ InitUnsafe(BOOLEAN)
NextHandles ==
    \/ NewHandle
    \/ \E b \in BOOLEAN : SetEnableUnsafeOperations(b)
    \/ Next
SpecHandles == InitHandles /\ [][NextHandles]_vars

----------------------------------------------------------------------------
(* Properties of one call of Describe *)

\* The nodes a node refers to, and whether a graph holds a reference cycle.
Kids(h, n) == {h[n].kids[i] : i \in 1..Len(h[n].kids)} \ {0}

RECURSIVE Reach(_, _, _)
Reach(h, from, fuel) ==
    IF fuel = 0 THEN from
    ELSE Reach(h, from \cup UNION {Kids(h, k) : k \in from}, fuel - 1)

Cyclic(h) == \E n \in 1..Len(h) : n \in Reach(h, Kids(h, n), Len(h))

Started(c) == pc[c] # "idle"

\* C1: Describe of a value graph that holds a reference cycle terminates:
\* neither the scan pass nor the render pass recurses until the goroutine's
\* stack is exhausted.
C1_CyclicTerminates ==
    \A c \in Calls : Started(c) /\ Cyclic(heap) => pc[c] # "fatal"

\* Every "$N" of a token sequence comes after an "N->" of the same N.
DefinedBefore(buf) ==
    \A i \in 1..Len(buf) :
        buf[i][1] = "ref" =>
            \E j \in 1..(i - 1) : buf[j][1] = "def" /\ buf[j][2] = buf[i][2]

\* C2: in the output of Describe, at every moment of its writing and as
\* returned, each back-reference $N comes after the definition N-> of its
\* label.
C2_NoForwardReference ==
    \A c \in Calls : DefinedBefore(stringBuilder[c]) /\ DefinedBefore(description[c])

C2_ReturnedBackReference ==
    \E c \in Calls :
        /\ pc[c] = "done"
        /\ \E i \in 1..Len(description[c]) : description[c][i][1] = "ref"

\* The identities the scan counted more than once.
SharedIdentities(c) ==
    {p \in DOMAIN seenPointerCounts[c] : seenPointerCounts[c][p] > 1}

\* C3: the table findDuplicates returns has the identities counted more than
\* once as its keys, and its labels are distinct and are exactly 1..k for
\* the k such identities.
C3_ReferenceTable ==
    \A c \in Calls :
        pc[c] = "render" =>
            LET names == referenceNames[c] IN
            /\ DOMAIN names = SharedIdentities(c)
            /\ \A a, b \in DOMAIN names : a # b => names[a] # names[b]
            /\ {names[a] : a \in DOMAIN names} = 1..Cardinality(SharedIdentities(c))

C3_TwoLabels ==
    \E c \in Calls :
        /\ pc[c] = "render"
        /\ Cardinality(DOMAIN referenceNames[c]) = 2

\* Whether the labels of the returned table grow along the sequence order of
\* identities.
LabelsFollow(c, order) ==
    pc[c] = "render" =>
        \A i, j \in 1..Len(order) :
            /\ i < j
            /\ order[i] \in DOMAIN referenceNames[c]
            /\ order[j] \in DOMAIN referenceNames[c]
            => referenceNames[c][order[i]] < referenceNames[c][order[j]]

\* C4 as stated: labels are assigned in the order in which the scan pass
\* first discovers the shared identities.
C4_DiscoveryOrder == \A c \in Calls : LabelsFollow(c, scanOrder[c])

\* C4: labels are assigned in the order in which the range over the map of
\* counts yields the shared identities, an order Go leaves unspecified: if
\* the range yields shared identity a before shared identity b, then
\* label(a) < label(b).
C4_RangeOrder == \A c \in Calls : LabelsFollow(c, rangeOrder[c])

C4_LabelsAgainstDiscovery ==
    \E c \in Calls :
        /\ pc[c] = "render"
        /\ \E i, j \in 1..Len(scanOrder[c]) :
              /\ i < j
              /\ scanOrder[c][i] \in DOMAIN referenceNames[c]
              /\ scanOrder[c][j] \in DOMAIN referenceNames[c]
              /\ referenceNames[c][scanOrder[c][i]] > referenceNames[c][scanOrder[c][j]]

\* How often a token sequence holds the definition of label n.
DefCount(buf, n) ==
    Cardinality({i \in 1..Len(buf) : buf[i][1] = "def" /\ buf[i][2] = n})

\* During the render pass the seen set holds exactly the labelled identities
\* whose definition is written, and a definition is written at most once.
SeenIsDefined(c) ==
    pc[c] = "render" =>
        /\ seenReferences[c] \subseteq DOMAIN referenceNames[c]
        /\ \A p \in DOMAIN referenceNames[c] :
              DefCount(stringBuilder[c], referenceNames[c][p])
                  = IF p \in seenReferences[c] THEN 1 ELSE 0

\* A step of the render pass adds an identity to the seen set only with the
\* writing of its definition, and a visit to an identity of the seen set
\* writes the back-reference, returns and pushes no call.
SeenStep(c) ==
    pc[c] = "render" =>
        LET buf == stringBuilder[c]
            names == referenceNames[c]
            v == Top(c).v
        IN  /\ seenReferences'[c] # seenReferences[c] =>
                  \E p \in DOMAIN names \ seenReferences[c] :
                      /\ seenReferences'[c] = seenReferences[c] \cup {p}
                      /\ Len(stringBuilder'[c]) > Len(buf)
                      /\ stringBuilder'[c][Len(buf) + 1] = <<"def", names[p]>>
            /\ ( /\ stack'[c] # stack[c]
                 /\ Top(c).at = "enter"
                 /\ RefChecked(heap, v)
                 /\ RefPointer(heap, v) \in seenReferences[c] )
               => /\ stringBuilder'[c] = Append(buf, <<"ref", names[RefPointer(heap, v)]>>)
                  /\ stack'[c] = Pop(stack[c])
                  /\ seenReferences'[c] = seenReferences[c]

\* C5: in one render pass an identity enters the seen set once, when its
\* definition is written and its full rendering begins; every later visit
\* writes only $<label> and does not recurse, so the definition and the body
\* of a shared instance are written once.
C5_SeenOnce ==
    /\ [](\A c \in Calls : SeenIsDefined(c))
    /\ [][\A c \in Calls : SeenStep(c)]_vars

C5_LaterVisit ==
    \E c \in Calls :
        /\ pc[c] = "render"
        /\ Len(stack[c]) >= 1
        /\ Len(stringBuilder[c]) >= 1
        /\ stringBuilder[c][Len(stringBuilder[c])][1] = "ref"
        /\ seenReferences[c] # {}

\* Whether the step is one of call c in its render pass.
RenderStepOf(c) ==
    pc[c] = "render" /\ (stack'[c] # stack[c] \/ stringBuilder'[c] # stringBuilder[c])

\* The step pushes the call of describeReflect on child j of the top frame.
PushesChild(c, j) ==
    /\ Len(stack'[c]) = Len(stack[c]) + 1
    /\ stack'[c][Len(stack'[c])] = Frame(Child(heap, Top(c).v, j))
    /\ stack'[c][Len(stack[c])] = [Top(c) EXCEPT !.i = j]

\* describeReflect on a pointer or an interface: nil is written as "nil"
\* alone; otherwise the prefix is written and next the value referred to.
NilOrPrefix(c) ==
    RenderStepOf(c) /\ heap[Top(c).v.n].kind \in {"ptr", "iface"} =>
        LET f == Top(c)
            nd == heap[f.v.n]
            buf == stringBuilder[c]
        IN  IF f.at = "enter" /\ nd.nilv
            THEN stringBuilder'[c] = Append(buf, <<"nil", 0>>) /\ stack'[c] = Pop(stack[c])
            ELSE IF f.at = "enter"
            THEN /\ stringBuilder'[c] = Append(buf, <<nd.kind, 0>>)
                 /\ stack'[c] = SetTop(stack[c], [f EXCEPT !.at = "loop"])
            ELSE IF f.i = 0 /\ nd.kids[1] = 0
            THEN stringBuilder'[c] = Append(buf, <<"int", 0>>)
            ELSE IF f.i = 0
            THEN stringBuilder'[c] = buf /\ PushesChild(c, 1)
            ELSE stringBuilder'[c] = buf /\ stack'[c] = Pop(stack[c])

\* C14: a nil pointer and a nil interface are written as exactly "nil",
\* with no prefix of their own; a pointer or interface that is not nil is
\* written as its prefix followed by the description of what it refers to.
C14_NilOrPrefix == [][\A c \in Calls : NilOrPrefix(c)]_vars

C14_NilBehindPointer ==
    \E c \in Calls :
        /\ pc[c] = "done"
        /\ description[c] = << <<"ptr", 0>>, <<"nil", 0>> >>

\* C15: a nil slice and a nil map are written as exactly "nil": no type
\* name, no brackets, no label.
C15_NilSliceIsNil ==
    \A c \in Calls :
        pc[c] = "done" /\ heap[1].kind \in {"slice", "map"} /\ heap[1].nilv
            => description[c] = << <<"nil", 0>> >>

\* describeStruct: field after field in the order of declaration, each
\* with its name before its value, then the closing bracket.
FieldsInOrder(c) ==
    RenderStepOf(c) /\ heap[Top(c).v.n].kind = "struct" /\ Top(c).at = "loop" =>
        LET f == Top(c)
            nd == heap[f.v.n]
            buf == stringBuilder[c]
            named == (buf \o (IF f.i > 0 THEN <<<<"sep", 0>>>> ELSE <<>>))
                         \o <<<<"field", f.i + 1>>>>
        IN  IF f.i = Len(nd.kids)
            THEN /\ stringBuilder'[c] = Append(buf, <<"close", f.v.n>>)
                 /\ stack'[c] = Pop(stack[c])
            ELSE IF nd.kids[f.i + 1] = 0
            THEN /\ stringBuilder'[c] = Append(named, <<"int", 0>>)
                 /\ stack'[c] = SetTop(stack[c], [f EXCEPT !.i = f.i + 1])
            ELSE stringBuilder'[c] = named /\ PushesChild(c, f.i + 1)

\* C19: a struct is written as its opening (the type name and bracket)
\* followed by all its fields, each once as name, separator, value, in the
\* order of declaration, whether or not the struct is addressable.
C19_FieldsInOrder ==
    /\ [](\A c \in Calls : \A k \in 1..Len(stack[c]) :
             stack[c][k].at = "enter" => stack[c][k].i = 0)
    /\ [][\A c \in Calls : FieldsInOrder(c)]_vars

C19_TwoStructsClosed ==
    \E c \in Calls :
        /\ pc[c] = "done"
        /\ \E m, n \in 1..Len(heap) :
              /\ m # n
              /\ heap[m].kind = "struct" /\ heap[n].kind = "struct"
              /\ \E i, j \in 1..Len(description[c]) :
                    /\ description[c][i] = <<"close", m>>
                    /\ description[c][j] = <<"close", n>>
                    /\ i < j
        /\ \E i \in 1..Len(description[c]) : description[c][i] = <<"field", 2>>

\* C20: a value that holds an array is scanned and rendered without a
\* failure being raised.
C20_ArrayDescribed ==
    \A c \in Calls : panicValue[c] # ArrayPointerPanic

\* The state a call works on is made anew: the count map when the scan
\* begins, the counter and the table when findDuplicates' loop begins, the
\* builder and the seen set when the render pass begins.
FreshState(c) ==
    /\ ( pc[c] = "scan" /\ Len(stack[c]) = 1 /\ Top(c).at = "enter" )
          => seenPointerCounts[c] = EmptyMap
    /\ ( pc[c] = "build" /\ rangeOrder[c] = <<>> )
          => referenceName[c] = 1 /\ referenceNames[c] = EmptyMap
    /\ ( pc[c] = "render" /\ Len(stack[c]) = 1 /\ Top(c).at = "enter" )
          => stringBuilder[c] = <<>> /\ seenReferences[c] = {}

\* C30: a call of Describe leaves the registry, the flag and the value as
\* they are and works on state of its own, made anew: what a call returns
\* after other calls is what Describe can return for the value and the
\* registry as a first call.
C30_NoStateKept ==
    /\ [][callVars' # callVars =>
             heap' = heap /\ customDescribers' = customDescribers
                          /\ PanicOnError' = PanicOnError]_vars
    /\ [](\A c \in Calls : FreshState(c))
    /\ [](\A c \in Calls :
             pc[c] = "done" =>
                 [pc |-> "done", description |-> description[c]]
                     \in Outcomes(heap, customDescribers, PanicOnError))

C30_SecondCallReturned ==
    /\ Calls = {1, 2}
    /\ pc[1] = "done" /\ pc[2] = "done"
    /\ \E i \in 1..Len(description[2]) : description[2][i][1] = "ref"
    /\ description[2] = description[1]

\* C11: two calls of Describe on an unmodified value without a cycle and
\* without a shared part return the same text.
C11_SameTextTwice ==
    ( /\ pc[1] = "done" /\ pc[2] = "done"
      /\ Unshared(heap) /\ Typed(heap) )
    => description[1] = description[2]

\* A step of call c that enters a struct that is not addressable: the scan
\* counts nothing and goes on to the fields; describeReflect writes neither
\* a definition nor a back-reference, opens the struct and goes on to the
\* fields.
UntrackedStruct(c) ==
    ( /\ pc[c] \in {"scan", "render"}
      /\ stack'[c] # stack[c]
      /\ Top(c).at = "enter"
      /\ heap[Top(c).v.n].kind = "struct"
      /\ ~Top(c).v.ca )
    => /\ stack'[c] = SetTop(stack[c], [Top(c) EXCEPT !.at = "loop"])
       /\ seenPointerCounts'[c] = seenPointerCounts[c]
       /\ seenReferences'[c] = seenReferences[c]
       /\ stringBuilder'[c] = IF pc[c] = "scan" THEN stringBuilder[c]
                              ELSE Append(stringBuilder[c], <<"open", Top(c).v.n>>)

\* C21: a struct value that is not addressable is never given an identity:
\* the scan does not count it, it gets no label, it is never replaced by a
\* back-reference, and it is written in full at every visit, also when the
\* same struct is labelled where it is addressable.
C21_UntrackedStruct == [][\A c \in Calls : UntrackedStruct(c)]_vars

C21_CopyOfLabelled ==
    \E c \in Calls :
        /\ pc[c] = "done"
        /\ heap[1].kind = "struct"
        /\ description[c][1] = <<"open", 1>>
        /\ \E i \in 2..(Len(description[c]) - 1), j \in 2..Len(description[c]) :
              /\ description[c][i][1] = "def"
              /\ description[c][i + 1] = <<"open", 1>>
              /\ description[c][j][1] = "ref"

\* The label numbers in a token sequence.
Labels(buf) == {buf[i][2] : i \in {j \in 1..Len(buf) : buf[j][1] \in {"def", "ref"}}}

\* Whether b is a with its label numbers renamed one to one: the same
\* tokens at the same places, definitions and back-references included.
Renamed(a, b) ==
    /\ Len(a) = Len(b)
    /\ \E rename \in [Labels(a) -> Labels(b)] :
          /\ \A x, y \in Labels(a) : x # y => rename[x] # rename[y]
          /\ {rename[x] : x \in Labels(a)} = Labels(b)
          /\ \A i \in 1..Len(a) :
                IF a[i][1] \in {"def", "ref"}
                THEN b[i] = <<a[i][1], rename[a[i][2]]>>
                ELSE b[i] = a[i]

\* C22: the texts Describe can return for one value differ only by a
\* one-to-one renaming of the label numbers; the text between the labels
\* and the places of the definitions and back-references are the same.
C22_UpToRenaming ==
    \A c \in Calls :
        pc[c] = "done" =>
            /\ [pc |-> "done", description |-> description[c]]
                   \in Outcomes(heap, customDescribers, PanicOnError)
            /\ \A o1, o2 \in Outcomes(heap, customDescribers, PanicOnError) :
                   Renamed(o1.description, o2.description)

C22_TwoTexts ==
    \E c \in Calls :
        /\ pc[c] = "done"
        /\ panicValue[c] = ""
        /\ \E o \in Outcomes(heap, customDescribers, PanicOnError) :
              /\ o.pc = "done"
              /\ o.description # description[c]
              /\ Labels(o.description) = {1, 2}

\* C23: every slice, map and addressable struct that describeReflect
\* reaches, also one reached through a map key, was counted by
\* findDuplicatesInternal.
C23_RenderWithinScan ==
    \A c \in Calls :
        ( /\ pc[c] = "render"
          /\ Top(c).at = "enter"
          /\ heap[Top(c).v.n].kind \in {"slice", "map", "struct"}
          /\ RefChecked(heap, Top(c).v) )
        => RefPointer(heap, Top(c).v) \in DOMAIN seenPointerCounts[c]

\* C28: values that are not the same value never share an identity: in a
\* graph in which no node is referred to twice, the scan visits every value
\* once, so it counts no pointer more than once (a struct and its first
\* field, a slice and its element 0, two nil slices or maps are not one
\* identity).
C28_OneIdentityOneValue ==
    \A c \in Calls :
        pc[c] \in {"build", "render", "done"} /\ Unshared(heap) =>
            \A p \in DOMAIN seenPointerCounts[c] : seenPointerCounts[c][p] = 1

----------------------------------------------------------------------------
(* Properties of the description of integers, functions, channels and of
   no value *)

SizedUnsigned == {"uint8", "uint16", "uint32", "uint64"}

\* The frame below the top frame of call c is an array or a slice.
InArray(c, k) ==
    k >= 2 /\ heap[stack[c][k - 1].v.n].kind \in {"slice", "array"}

\* The digits of a value, all of them, in lower case.
AllDigits(val) == [i \in 1..Len(val) |-> HexDigit(val[i])]

\* describeReflect on an element of a sized unsigned kind of an array or a
\* slice writes 0x and two digits for every byte of the kind.
HexElement(c) ==
    ( /\ RenderStepOf(c)
      /\ Top(c).at = "enter"
      /\ InArray(c, Len(stack[c]))
      /\ heap[Top(c).v.n].kind \in SizedUnsigned )
    => LET nd == heap[Top(c).v.n] IN
       /\ Len(nd.val) = 2 * ByteSize(nd.kind, 0)
       /\ stringBuilder'[c] = Append(stringBuilder[c], <<"0x", AllDigits(nd.val)>>)

DecimalElsewhere(c) ==
    ( /\ RenderStepOf(c)
      /\ Top(c).at = "enter"
      /\ heap[Top(c).v.n].kind \in UnsignedKinds
      /\ ~InArray(c, Len(stack[c])) )
    => stringBuilder'[c] = Append(stringBuilder[c], <<"dec", heap[Top(c).v.n].val>>)

\* C27: asHex is set only for the direct elements of an array or a slice
\* whose element type is an unsigned integer kind; an unsigned integer that
\* is the root, a struct field, a map key or value, or behind a pointer or
\* an interface is written in decimal, whatever encloses it further out.
C27_HexOnlyForElements ==
    /\ [](\A c \in Calls : \A k \in 1..Len(stack[c]) :
             stack[c][k].asHex =>
                 /\ pc[c] = "render"
                 /\ InArray(c, k)
                 /\ heap[stack[c][k].v.n].kind \in UnsignedKinds)
    /\ [][\A c \in Calls : DecimalElsewhere(c)]_vars

C27_DecimalBehindPointer ==
    \E c \in Calls :
        /\ pc[c] = "done"
        /\ heap[1].kind = "slice"
        /\ Len(description[c]) = 4
        /\ description[c][2] = <<"ptr", 0>>
        /\ description[c][3][1] = "dec"
        /\ heap[heap[heap[1].kids[1]].kids[1]].kind = "uint8"

\* C13: an element of an array or a slice whose element type is uint or
\* uintptr is written in hexadecimal with exactly 8 digits where pointers
\* have 32 bits and exactly 16 digits where they have 64.
C13_WordWidthHex ==
    \A c \in Calls :
        ( /\ pc[c] = "done"
          /\ heap[1].kind = "slice"
          /\ Len(heap[1].kids) > 0
          /\ KindOf(heap, heap[1].kids[1]) \in {"uint", "uintptr"} )
        => \A i \in 1..Len(heap[1].kids) :
               /\ description[c][2 * i][1] = "0x"
               /\ Len(description[c][2 * i][2]) = Len(heap[heap[1].kids[i]].val)

\* C16: a function is written as its signature, with the token func, or
\* nilfunc when it is nil, in front; never as empty text.
C16_FuncSignature ==
    \A c \in Calls :
        pc[c] = "done" /\ heap[1].kind = "func" =>
            /\ description[c] # <<>>
            /\ description[c][1][1] = IF heap[1].nilv THEN "nilfunc" ELSE "func"

\* C17: a channel is written as the name of its type, direction included,
\* and nothing else.
C17_ChanTypeName ==
    \A c \in Calls :
        pc[c] = "done" /\ heap[1].kind = "chan" =>
            Len(description[c]) = 1 /\ description[c][1][1] = "chantype"

\* C18: Describe of no value (a nil interface as the root) returns exactly
\* "invalid": the scan counts nothing, the registry is not indexed for the
\* invalid Value and no failure is raised.
C18_Invalid ==
    \A c \in Calls :
        Started(c) /\ heap[1].kind = "invalid" =>
            /\ seenPointerCounts[c] = EmptyMap
            /\ referenceNames[c] = EmptyMap
            /\ panicValue[c] = ""
            /\ pc[c] \notin {"panicked", "fatal"}
            /\ ~ReadsRegistry(heap, ValueOf(1))
            /\ stringBuilder[c] \in {<<>>, << <<"invalid", 0>> >>}
            /\ pc[c] = "done" => description[c] = << <<"invalid", 0>> >>

C18_InvalidReturned ==
    \E c \in Calls : pc[c] = "done" /\ heap[1].kind = "invalid" /\ Len(description[c]) = 1

----------------------------------------------------------------------------
(* Properties of the panic boundary, the registry and concurrent calls *)

\* C6: with PanicOnError false, a call of Describe always produces a string:
\* whatever fails in the scan or the render pass, the call ends by
\* returning, never by taking the failure to its caller or the process down.
C6_AlwaysAString ==
    \A c \in Calls : ~PanicOnError /\ Started(c) => pc[c] \notin {"panicked", "fatal"}

IsPrefix(a, b) == Len(a) <= Len(b) /\ SubSeq(b, 1, Len(a)) = a

\* C7: when a custom describer fails on a node, the text written before that
\* node is kept in the returned description, which goes on after it.
C7_HookFailureIsLocal ==
    \A c \in Calls :
        pc[c] = "done" /\ panicValue[c] = HookPanic =>
            IsPrefix(stringBuilder[c], description[c])

\* Whether the step is call c entering describeReflect on a value that is
\* not written as a back-reference and whose type has a describer.
EntersHooked(c) ==
    /\ pc[c] = "render"
    /\ stack'[c] # stack[c]
    /\ Top(c).at = "enter"
    /\ Lookup(customDescribers, TypeOf(heap, Top(c).v.n)) # NilHook
    /\ ~ ( /\ RefChecked(heap, Top(c).v)
           /\ RefPointer(heap, Top(c).v) \in DOMAIN referenceNames[c]
           /\ RefPointer(heap, Top(c).v) \in seenReferences[c] )

\* The step writes the definition of the label of v, if v has one, and then
\* what the describer returns, or is unwound by the describer's panic.
WritesHook(c) ==
    LET v == Top(c).v
        ptr == RefPointer(heap, v)
        names == referenceNames[c]
        hk == Lookup(customDescribers, TypeOf(heap, v.n))
        buf1 == IF RefChecked(heap, v) /\ ptr \in DOMAIN names
                THEN Append(stringBuilder[c], <<"def", names[ptr]>>)
                ELSE stringBuilder[c]
    IN  IF hk = HookPanic
        THEN panicValue'[c] = HookPanic
        ELSE /\ stringBuilder'[c] = Append(buf1, <<hk, v.n>>)
             /\ stack'[c] = Pop(stack[c])

\* C25: whenever the registry holds a describer that is not nil for the
\* type of a value, describeReflect writes what the describer returns for
\* it (after the definition of its label, if any), for every value of the
\* type, the zero value included.
C25_HookForEveryValue ==
    [][\A c \in Calls : EntersHooked(c) => WritesHook(c)]_vars

\* C24: the reference check comes before the custom describer: the first
\* visit of a labelled value whose type has a describer writes the
\* definition and what the describer returns; every later visit writes the
\* back-reference alone.
C24_ReferenceBeforeHook ==
    [][\A c \in Calls :
         ( /\ pc[c] = "render"
           /\ stack'[c] # stack[c]
           /\ Top(c).at = "enter"
           /\ Lookup(customDescribers, TypeOf(heap, Top(c).v.n)) # NilHook
           /\ RefChecked(heap, Top(c).v)
           /\ RefPointer(heap, Top(c).v) \in DOMAIN referenceNames[c] )
         => IF RefPointer(heap, Top(c).v) \in seenReferences[c]
            THEN /\ stringBuilder'[c] =
                        Append(stringBuilder[c],
                               <<"ref", referenceNames[c][RefPointer(heap, Top(c).v)]>>)
                 /\ stack'[c] = Pop(stack[c])
            ELSE WritesHook(c)]_vars

\* C29: when Describe returns normally, every label of the reference
\* table is written to the description exactly once as a definition, also
\* when the labelled value lies inside a value that a custom describer
\* renders.
C29_EveryLabelDefined ==
    \A c \in Calls :
        pc[c] = "done" /\ panicValue[c] = "" =>
            \A p \in DOMAIN referenceNames[c] :
                DefCount(description[c], referenceNames[c][p]) = 1

\* The describer the most recent SetCustomDescriber call for t gave, NilHook
\* when there was no call for t.
RECURSIVE MostRecent(_, _)
MostRecent(log, t) ==
    IF log = <<>> THEN NilHook
    ELSE IF log[Len(log)][1] = t THEN log[Len(log)][2]
    ELSE MostRecent(SubSeq(log, 1, Len(log) - 1), t)

\* The registry with an entry only for the types whose most recent call
\* gave a describer that is not nil, next to the entries it starts with.
Registered(log) ==
    LET set == {t \in HookTypes : MostRecent(log, t) # NilHook} IN
    [t \in set |-> MostRecent(log, t)] @@ InitialDescribers

\* C8: the describer in effect for a type is the one of the most recent
\* SetCustomDescriber call for it; after a call with nil the values of the
\* type are described as if the type had no entry; the entries of other
\* types stay as they are.
C8_MostRecentDescriber ==
    /\ \A t \in HookTypes : Lookup(customDescribers, t) = MostRecent(setLog, t)
    /\ \A t \in DOMAIN InitialDescribers : Lookup(customDescribers, t) = InitialDescribers[t]
    /\ \A c \in Calls :
          pc[c] \in {"done", "panicked"} =>
              DescribeAlone(heap, referenceNames[c], Registered(setLog), PanicOnError)
                  = [pc |-> pc[c], description |-> description[c]]

C8_ReplacedByNil ==
    \E c \in Calls :
        /\ pc[c] = "done"
        /\ setLog = << <<(<<"slice", 0>>), "hOk">>, <<(<<"slice", 0>>), NilHook>> >>
        /\ heap[1].kind = "slice" /\ ~heap[1].nilv
        /\ description[c][1] = <<"open", 1>>

\* C9: no interleaving of SetCustomDescriber with a Describe that looks up a
\* describer, or with another SetCustomDescriber, reaches a data race on
\* the registry.
C9_NoDataRace == ~raced

\* C10: of two concurrent calls of Describe, each returns a string that the
\* call returns when it runs alone.
C10_AsAlone ==
    \A c \in Calls :
        pc[c] = "done" =>
            \E names \in Tables(ScanAlone(heap).counts) :
                DescribeAlone(heap, names, customDescribers, PanicOnError)
                    = [pc |-> "done", description |-> description[c]]

C10_ReturnedWhileOtherRenders ==
    /\ Calls = {1, 2}
    /\ pc[1] = "done"
    /\ \E i \in 1..Len(description[1]) : description[1][i][1] = "ref"
    /\ pc[2] = "render"
    /\ seenReferences[2] # {}
    /\ Len(stringBuilder[2]) >= 2

----------------------------------------------------------------------------
(* Properties of the special case for reflect.Value and reflect.Type *)

\* Call c is entering describeReflect for a handle got through an
\* unexported field, and takes the step.
EntersBlocked(c) ==
    /\ pc[c] = "render" /\ stack[c] # <<>> /\ Top(c).at = "enter"
    /\ heap[Top(c).v.n].kind \in HandleKinds
    /\ heap[Top(c).v.n].ro
    /\ stack'[c] # stack[c]

\* What the fallback writes for the handle in node n: the bracket with the
\* marker of the meta-type, and in it the default form alone.
FallbackText(n) ==
    <<<<(IF heap[n].kind = "rvalue" THEN "reflect.Value(" ELSE "reflect.Type("), n>>,
      <<"%v", n>>, <<"close", n>>>>

\* C26: when describeReflect renders a reflect.Value or a reflect.Type whose
\* CanInterface() is false, interfaceUnexported is called only if the build
\* has the capability (hasExpectedReflectStruct) and EnableUnsafeOperations
\* is true; otherwise the default form of the handle (%v) is written inside
\* the bracket "reflect.Value(" / "reflect.Type(" ... ")", nothing panics and
\* the call of describeReflect returns.
C26_UnsafeOnlyWhenEnabled ==
    [][\A c \in Calls :
          /\ exposed'[c] /\ ~exposed[c] =>
                /\ hasExpectedReflectStruct /\ EnableUnsafeOperations
                /\ EntersBlocked(c)
          /\ EntersBlocked(c) /\ ~(hasExpectedReflectStruct /\ EnableUnsafeOperations) =>
                /\ ~exposed'[c]
                /\ stringBuilder'[Ctx(c)] = stringBuilder[Ctx(c)] \o FallbackText(Top(c).v.n)
                /\ stack'[c] = Pop(stack[c])
                /\ pc'[c] \in {"render", "done"}
                /\ panicValue'[c] = ""]_vars

\* A call has returned a text with the fallback of a reflect.Value in it,
\* without a panic and without calling interfaceUnexported.
C26_FallbackWritten ==
    \E c \in Calls :
        /\ pc[c] = "done" /\ panicValue[c] = "" /\ ~exposed[c]
        /\ \E i \in 1..(Len(description[c]) - 2) :
              /\ description[c][i][1] = "reflect.Value("
              /\ heap[description[c][i][2]].ro
              /\ SubSeq(description[c], i, i + 2) = FallbackText(description[c][i][2])

====
